---- MODULE Spec2Model ----
(***************************************************************************)
(* License service: the license lifecycle (renew / suspend / resume /      *)
(* cancel / change_status), the seat ledger (available_seats) and the      *)
(* activation protocol (activate / deactivate) of licenses/models.py and   *)
(* licenses/views.py, as a state machine over one license, its activation  *)
(* table and a pool of concurrent request handlers; and the endpoints that *)
(* work across license keys, products and licenses (bulk_deactivate,       *)
(* check_status, provision, license create/update) over the tables `db`.   *)
(***************************************************************************)
EXTENDS Integers, Sequences, FiniteSets, TLC

\* ------------------------------------------------------------------ bounds
MaxTime == 2
MaxRenewals == 2
MaxSeats == 2
NumHandlers == 2
NumInstances == 2
MaxIds == 3
NumActivations == 4
MaxRequests == 1
MaxLicenses == 2
MaxBulk == 2

\* --------------------------------------------------------------- constants
\* A null DateTimeField / a missing object (Python None); dates are >= 0.
None == -1

STATUS_CHOICES == {"valid", "suspended", "cancelled", "expired", "pending", "renewed"}

\* Reason strings a caller may pass.
Reasons == {"billing", "abuse"}

\* Dates a caller may pass as a new expiration date (past ones included).
Dates == 0..(MaxTime + 1)

Handlers == 1..NumHandlers

Instances == 1..NumInstances

VARIABLES
    now,          \* timezone.now()
    lic,          \* the License row
    last,         \* outcome of the last lifecycle request, with the row before it
    activations,  \* the activations table of the license: Seq of rows, id = index
    pc,           \* per handler: position in the request it is serving
    req,          \* per handler: the request's locals
    resp,         \* the response sent last by the service endpoints
    db            \* the tables of the service, where several keys and licenses matter

vars == <<now, lic, last, activations, pc, req, resp, db>>

\* ------------------------------------------------------ License (the model)

\* License.is_expired
is_expired(l, t) == t > l.expiration_date

\* A model method either returns (the saved row) or raises ValueError.
Returned(l) == [raised |-> FALSE, lic |-> l, error |-> <<>>]

Raised(l, msg) == [raised |-> TRUE, lic |-> l, error |-> msg]

\* License.renew as it would be if its status check also let suspended through.
License_renew_suspended(l, new_expiration_date) ==
    IF l.status \notin {"valid", "expired", "suspended"}
    THEN Raised(l, <<"Cannot renew license with status", l.status>>)
    ELSE Returned([l EXCEPT
            !.original_expiration_date =
                IF @ = None THEN l.expiration_date ELSE @,
            !.expiration_date = new_expiration_date,
            !.renewal_count = @ + 1,
            !.status = "renewed"])

\* License.renew
License_renew(l, new_expiration_date) ==
    IF l.status \notin {"valid", "expired"}
    THEN Raised(l, <<"Cannot renew license with status", l.status>>)
    ELSE Returned([l EXCEPT
            !.original_expiration_date =
                IF @ = None THEN l.expiration_date ELSE @,
            !.expiration_date = new_expiration_date,
            !.renewal_count = @ + 1,
            !.status = "renewed"])

\* License.suspend as it would be if it also accepted a pending license.
License_suspend_pending(l, reason, t) ==
    IF l.status \notin {"valid", "renewed", "pending"}
    THEN Raised(l, <<"Cannot suspend license with status", l.status>>)
    ELSE Returned([l EXCEPT
            !.status = "suspended",
            !.suspension_reason = reason,
            !.suspended_at = t])

\* License.suspend
License_suspend(l, reason, t) ==
    IF l.status \notin {"valid", "renewed"}
    THEN Raised(l, <<"Cannot suspend license with status", l.status>>)
    ELSE Returned([l EXCEPT
            !.status = "suspended",
            !.suspension_reason = reason,
            !.suspended_at = t])

\* License.resume as it would be if it refused only an already valid license.
License_resume_unchecked(l) ==
    IF l.status = "valid"
    THEN Raised(l, <<"Cannot resume license with status", l.status>>)
    ELSE Returned([l EXCEPT
            !.status = "valid",
            !.suspension_reason = "",
            !.suspended_at = None])

\* License.resume as it would be if it left the suspension reason in place.
License_resume_keeps_reason(l) ==
    IF l.status # "suspended"
    THEN Raised(l, <<"Cannot resume license with status", l.status>>)
    ELSE Returned([l EXCEPT
            !.status = "valid",
            !.suspended_at = None])

\* License.resume
License_resume(l) ==
    IF l.status # "suspended"
    THEN Raised(l, <<"Cannot resume license with status", l.status>>)
    ELSE Returned([l EXCEPT
            !.status = "valid",
            !.suspension_reason = "",
            !.suspended_at = None])

\* License.cancel as it would be if its status check left out 'cancelled'.
License_cancel_again(l, reason, t) ==
    IF l.status \in {"expired"}
    THEN Raised(l, <<"Cannot cancel license with status", l.status>>)
    ELSE Returned([l EXCEPT
            !.status = "cancelled",
            !.cancellation_reason = reason,
            !.cancelled_at = t])

\* License.cancel
License_cancel(l, reason, t) ==
    IF l.status \in {"cancelled", "expired"}
    THEN Raised(l, <<"Cannot cancel license with status", l.status>>)
    ELSE Returned([l EXCEPT
            !.status = "cancelled",
            !.cancellation_reason = reason,
            !.cancelled_at = t])

\* ---------------------------------------------- LicenseViewSet (lifecycle)

\* The response of a lifecycle endpoint and the row it leaves in the store.
Response(op, outcome, error, pre, post) ==
    [op |-> op, outcome |-> outcome, error |-> error, pre |-> pre, lic |-> post]

\* The request a lifecycle endpoint received: its argument and the time.
Request(input, t) == [input |-> input, at |-> t]

\* try: license_obj.<method>(...) except ValueError: 400
FromMethod(op, pre, r) ==
    IF r.raised
    THEN Response(op, "ValueError", r.error, pre, r.lic)
    ELSE Response(op, "success", <<>>, pre, r.lic)

\* The validation as it would be if it accepted the current time.
validate_new_expiration_date_or_now(value, t) == value >= t

\* LicenseRenewalSerializer.validate_new_expiration_date
validate_new_expiration_date(value, t) == value > t

\* LicenseViewSet.renew
LicenseViewSet_renew(l, new_expiration_date, t) ==
    IF ~validate_new_expiration_date(new_expiration_date, t)
    THEN Response("renew", "ValidationError",
                  <<"New expiration date must be in the future.">>, l, l)
    ELSE FromMethod("renew", l, License_renew(l, new_expiration_date))

\* LicenseViewSet.suspend
LicenseViewSet_suspend(l, reason, t) ==
    FromMethod("suspend", l, License_suspend(l, reason, t))

\* LicenseViewSet.resume
LicenseViewSet_resume(l) ==
    FromMethod("resume", l, License_resume(l))

\* LicenseViewSet.cancel
LicenseViewSet_cancel(l, reason, t) ==
    FromMethod("cancel", l, License_cancel(l, reason, t))

\* LicenseViewSet.change_status
LicenseViewSet_change_status(l, new_status) ==
    IF new_status \notin STATUS_CHOICES
    THEN Response("change_status", "ValidationError",
                  <<"Invalid status value.">>, l, l)
    ELSE Response("change_status", "success", <<>>, l,
                  [l EXCEPT !.status = new_status])

\* A freshly created License row (field defaults of the model).
NewLicense(status, seats, expiration_date) ==
    [status |-> status,
     seats |-> seats,
     expiration_date |-> expiration_date,
     original_expiration_date |-> None,
     renewal_count |-> 0,
     suspension_reason |-> "",
     cancellation_reason |-> "",
     cancelled_at |-> None,
     suspended_at |-> None]

\* One logger.info line: the logger that wrote it and what its message
\* carries besides the license id.
LogLine(name, carries) == [logger |-> name, carries |-> carries]

\* The logger.info lines a lifecycle request writes: a successful renew,
\* suspend, resume or cancel writes one line in the model method and one in
\* the view, a successful change_status one line in the view; a request that
\* raises writes none.
logger_info(op, outcome) ==
    IF outcome # "success" THEN <<>>
    ELSE IF op = "renew"
    THEN <<LogLine("licenses.models", {"operation", "new_expiration_date", "renewal_count"}),
           LogLine("licenses.views", {"operation", "actor", "new_expiration_date"})>>
    ELSE IF op \in {"suspend", "cancel"}
    THEN <<LogLine("licenses.models", {"operation", "reason"}),
           LogLine("licenses.views", {"operation", "actor", "reason"})>>
    ELSE IF op = "resume"
    THEN <<LogLine("licenses.models", {"operation"}),
           LogLine("licenses.views", {"operation", "actor"})>>
    ELSE <<LogLine("licenses.views", {"operation", "actor"})>>

\* A lifecycle endpoint served request q with response r: the store holds
\* the row it saved, `last` holds the request, the outcome, the row before
\* and the log lines the request wrote.
Served(q, r) ==
    /\ lic' = r.lic
    /\ last' = [op |-> r.op, input |-> q.input, at |-> q.at,
                outcome |-> r.outcome, error |-> r.error, pre |-> r.pre,
                logged |-> logger_info(r.op, r.outcome)]

Renew ==
    /\ lic.renewal_count < MaxRenewals
    /\ \E d \in Dates : Served(Request(d, now), LicenseViewSet_renew(lic, d, now))
    /\ UNCHANGED <<now, activations, pc, req, resp, db>>

Suspend ==
    /\ \E r \in Reasons : Served(Request(r, now), LicenseViewSet_suspend(lic, r, now))
    /\ UNCHANGED <<now, activations, pc, req, resp, db>>

Resume ==
    /\ Served(Request(None, now), LicenseViewSet_resume(lic))
    /\ UNCHANGED <<now, activations, pc, req, resp, db>>

\* The cancel endpoint as it would be if cancelling released the seats of
\* the license.
Cancel_releasing ==
    /\ \E r \in Reasons :
        /\ Served(Request(r, now), LicenseViewSet_cancel(lic, r, now))
        /\ activations' = [a \in DOMAIN activations |->
                                [activations[a] EXCEPT !.is_active = FALSE]]
    /\ UNCHANGED <<now, pc, req, resp, db>>

Cancel ==
    /\ \E r \in Reasons : Served(Request(r, now), LicenseViewSet_cancel(lic, r, now))
    /\ UNCHANGED <<now, activations, pc, req, resp, db>>

ChangeStatus ==
    /\ \E s \in STATUS_CHOICES \cup {"bogus"} :
            Served(Request(s, now), LicenseViewSet_change_status(lic, s))
    /\ UNCHANGED <<now, activations, pc, req, resp, db>>

\* Time passes.
Tick ==
    /\ now < MaxTime
    /\ now' = now + 1
    /\ UNCHANGED <<lic, last, activations, pc, req, resp, db>>

\* --------------------------------------------- Activation (the model, store)

\* A freshly created Activation row (field defaults of the model).
NewActivation(instance_identifier) ==
    [instance_identifier |-> instance_identifier,
     is_active |-> TRUE,
     deactivated_at |-> None,
     deactivation_reason |-> ""]

\* Activation.objects.filter(license=..., instance_identifier=..., is_active=True)
ActiveOf(rows, instance_identifier) ==
    {a \in DOMAIN rows : /\ rows[a].instance_identifier = instance_identifier
                         /\ rows[a].is_active}

\* QuerySet.first() under Meta.ordering = ['-activated_at']: the row created
\* last (ids grow with activated_at), None when there is none.
First(ids) ==
    IF ids = {} THEN None ELSE CHOOSE a \in ids : \A b \in ids : b <= a

\* License.available_seats as it would be without max(0, ...).
available_seats_unclamped(l, rows) ==
    l.seats - Cardinality({a \in DOMAIN rows : rows[a].is_active})

\* License.available_seats
available_seats(l, rows) ==
    LET used_seats == Cardinality({a \in DOMAIN rows : rows[a].is_active})
    IN  IF l.seats - used_seats > 0 THEN l.seats - used_seats ELSE 0

\* Activation.Meta.unique_together = ['license', 'instance_identifier']: the
\* store refuses a second row of the license with the same instance
\* identifier, whatever the rows' is_active.
unique_together(rows, instance_identifier) ==
    \A a \in DOMAIN rows : rows[a].instance_identifier # instance_identifier

\* Activation.objects.create as it would be with no uniqueness constraint in
\* the store.
Activation_create_unconstrained(rows, instance_identifier) ==
    [raised |-> FALSE,
     rows |-> Append(rows, NewActivation(instance_identifier)),
     id |-> Len(rows) + 1]

\* Activation.objects.create: the insert, or IntegrityError from the store.
Activation_create(rows, instance_identifier) ==
    IF ~unique_together(rows, instance_identifier)
    THEN [raised |-> TRUE, rows |-> rows, id |-> None]
    ELSE [raised |-> FALSE,
          rows |-> Append(rows, NewActivation(instance_identifier)),
          id |-> Len(rows) + 1]

\* Activation.deactivate as it would be if it did not record the time.
Activation_deactivate_untimed(activation, reason, t) ==
    [activation EXCEPT !.is_active = FALSE,
                       !.deactivation_reason = reason]

\* Activation.deactivate, on the object the handler loaded
Activation_deactivate(activation, reason, t) ==
    [activation EXCEPT !.is_active = FALSE,
                       !.deactivated_at = t,
                       !.deactivation_reason = reason]

\* license_key_obj.licenses.get(product__slug=..., status='valid',
\*                              expiration_date__gt=timezone.now())
licenses_get(l, t) == l.status = "valid" /\ l.expiration_date > t

\* ------------------------------------------------- the request handlers

Idle == [h \in Handlers |-> "idle"]

\* What a request saw in the store when it arrived: the active activation of
\* its instance (None if none) and the rows of its instance.
Arrival(instance_identifier) ==
    [held |-> First(ActiveOf(activations, instance_identifier)),
     rows |-> {a \in DOMAIN activations :
                    activations[a].instance_identifier = instance_identifier}]

\* The locals of a handler: the instance identifier and reason of the request,
\* the License object and the Activation (id and object) it has loaded, and
\* what it saw on arrival.
Locals(instance_identifier, reason, license_obj, id, activation) ==
    [instance_identifier |-> instance_identifier,
     reason |-> reason,
     license_obj |-> license_obj,
     id |-> id,
     activation |-> activation,
     arrival |-> Arrival(instance_identifier)]

NoLocals == [h \in Handlers |-> [instance_identifier |-> None]]

\* An HTTP response of the activation endpoints (code 500: an exception no
\* handler catches), with what its request saw on arrival.
Answer(op, instance_identifier, code, error, activation_id, seats_left, arrival) ==
    [op |-> op,
     instance_identifier |-> instance_identifier,
     code |-> code,
     error |-> error,
     activation_id |-> activation_id,
     available_seats |-> seats_left,
     arrival |-> arrival]

NoResponse == [op |-> "none"]

\* LicenseServiceViewSet.activate, lines 485-513: the request is read and the
\* license key and its valid license are looked up.
ActivateLookup(h) ==
    /\ pc[h] = "idle"
    /\ \E i \in Instances :
        IF licenses_get(lic, now)
        THEN /\ pc' = [pc EXCEPT ![h] = "existing"]
             /\ req' = [req EXCEPT ![h] = Locals(i, "", lic, None, None)]
             /\ UNCHANGED resp
        ELSE /\ resp' = Answer("activate", i, 404,
                               "No valid license found for this product",
                               None, None, Arrival(i))
             /\ UNCHANGED <<pc, req>>
    /\ UNCHANGED <<now, lic, last, activations, db>>

\* LicenseServiceViewSet.activate, lines 515-527: an active activation of the
\* instance is answered with its id.
ActivateExisting(h) ==
    /\ pc[h] = "existing"
    /\ LET i == req[h].instance_identifier
           existing_activation == First(ActiveOf(activations, i))
       IN  IF existing_activation # None
           THEN /\ resp' = Answer("activate", i, 200,
                                  "License already activated for this instance",
                                  existing_activation, None, req[h].arrival)
                /\ pc' = [pc EXCEPT ![h] = "idle"]
                /\ req' = [req EXCEPT ![h] = [instance_identifier |-> None]]
           ELSE /\ pc' = [pc EXCEPT ![h] = "seats"]
                /\ UNCHANGED <<resp, req>>
    /\ UNCHANGED <<now, lic, last, activations, db>>

\* LicenseServiceViewSet.activate, lines 529-534: the seat check.
ActivateSeats(h) ==
    /\ pc[h] = "seats"
    /\ IF available_seats(req[h].license_obj, activations) <= 0
       THEN /\ resp' = Answer("activate", req[h].instance_identifier, 400,
                              "No available seats for this license",
                              None, None, req[h].arrival)
            /\ pc' = [pc EXCEPT ![h] = "idle"]
            /\ req' = [req EXCEPT ![h] = [instance_identifier |-> None]]
       ELSE /\ pc' = [pc EXCEPT ![h] = "create"]
            /\ UNCHANGED <<resp, req>>
    /\ UNCHANGED <<now, lic, last, activations, db>>

\* LicenseServiceViewSet.activate, lines 536-547: the insert.
ActivateCreate(h) ==
    /\ pc[h] = "create"
    /\ LET r == Activation_create(activations, req[h].instance_identifier)
       IN  IF r.raised
           THEN /\ resp' = Answer("activate", req[h].instance_identifier, 500,
                                  "IntegrityError", None, None, req[h].arrival)
                /\ pc' = [pc EXCEPT ![h] = "idle"]
                /\ req' = [req EXCEPT ![h] = [instance_identifier |-> None]]
                /\ UNCHANGED activations
           ELSE /\ activations' = r.rows
                /\ req' = [req EXCEPT ![h].id = r.id]
                /\ pc' = [pc EXCEPT ![h] = "respond"]
                /\ UNCHANGED resp
    /\ UNCHANGED <<now, lic, last, db>>

\* LicenseServiceViewSet.activate, lines 549-554: the response, with the
\* seats left read from the store.
ActivateRespond(h) ==
    /\ pc[h] = "respond"
    /\ resp' = Answer("activate", req[h].instance_identifier, 200,
                      "License activated successfully", req[h].id,
                      available_seats(req[h].license_obj, activations) - 1,
                      req[h].arrival)
    /\ pc' = [pc EXCEPT ![h] = "idle"]
    /\ req' = [req EXCEPT ![h] = [instance_identifier |-> None]]
    /\ UNCHANGED <<now, lic, last, activations, db>>

\* ActivationViewSet.deactivate, lines 327-335: the activation is loaded
\* (404 when there is none with this id) and must be active.
DeactivateLoad(h) ==
    /\ pc[h] = "idle"
    /\ \E id \in 1..(Len(activations) + 1), reason \in Reasons :
        IF id \notin DOMAIN activations
        THEN /\ resp' = Answer("deactivate", None, 404, "Not found.",
                               None, None, Arrival(None))
             /\ UNCHANGED <<pc, req>>
        ELSE LET activation == activations[id]
                 i == activation.instance_identifier
             IN  IF ~activation.is_active
                 THEN /\ resp' = Answer("deactivate", i, 400,
                                        "Activation is already deactivated.",
                                        id, None, Arrival(i))
                      /\ UNCHANGED <<pc, req>>
                 ELSE /\ pc' = [pc EXCEPT ![h] = "save"]
                      /\ req' = [req EXCEPT ![h] =
                                    Locals(i, reason, lic, id, activation)]
                      /\ UNCHANGED resp
    /\ UNCHANGED <<now, lic, last, activations, db>>

\* ActivationViewSet.deactivate, lines 337-350: the loaded object is
\* deactivated and saved.
DeactivateSave(h) ==
    /\ pc[h] = "save"
    /\ activations' = [activations EXCEPT ![req[h].id] =
            Activation_deactivate(req[h].activation, req[h].reason, now)]
    /\ resp' = Answer("deactivate", req[h].instance_identifier, 200,
                      "Activation deactivated successfully", req[h].id, None,
                      req[h].arrival)
    /\ pc' = [pc EXCEPT ![h] = "idle"]
    /\ req' = [req EXCEPT ![h] = [instance_identifier |-> None]]
    /\ UNCHANGED <<now, lic, last, db>>

\* The lifecycle endpoints as concurrent requests: get_object reads the row,
\* the model method checks and changes the object read, and save writes every
\* field of that object back. A handler at "renew", "suspend", "resume" or
\* "cancel" has read the row and holds it as license_obj; a handler at "done"
\* has answered its request (each handler serves one lifecycle request).
LifecycleOps == {"renew", "suspend", "resume", "cancel"}

\* license_obj = self.get_object()
LicenseViewSet_get_object(h) ==
    /\ pc[h] = "idle"
    /\ \E op \in LifecycleOps :
        /\ op = "renew" => lic.renewal_count < MaxRenewals
        /\ pc' = [pc EXCEPT ![h] = op]
    /\ req' = [req EXCEPT ![h] = [instance_identifier |-> None, license_obj |-> lic]]
    /\ UNCHANGED <<now, lic, last, activations, resp, db>>

\* The endpoint answered request q with response r, computed on the object
\* it had read: a successful method has saved that object over the stored
\* row, a refused request has saved nothing.
Saved(h, q, r) ==
    /\ lic' = IF r.outcome = "success" THEN r.lic ELSE lic
    /\ last' = [op |-> r.op, input |-> q.input, at |-> q.at,
                outcome |-> r.outcome, error |-> r.error, pre |-> r.pre,
                logged |-> logger_info(r.op, r.outcome)]
    /\ pc' = [pc EXCEPT ![h] = "done"]
    /\ req' = [req EXCEPT ![h] = [instance_identifier |-> None]]

RenewSave(h) ==
    /\ pc[h] = "renew"
    /\ \E d \in Dates :
        Saved(h, Request(d, now), LicenseViewSet_renew(req[h].license_obj, d, now))
    /\ UNCHANGED <<now, activations, resp, db>>

SuspendSave(h) ==
    /\ pc[h] = "suspend"
    /\ \E r \in Reasons :
        Saved(h, Request(r, now), LicenseViewSet_suspend(req[h].license_obj, r, now))
    /\ UNCHANGED <<now, activations, resp, db>>

ResumeSave(h) ==
    /\ pc[h] = "resume"
    /\ Saved(h, Request(None, now), LicenseViewSet_resume(req[h].license_obj))
    /\ UNCHANGED <<now, activations, resp, db>>

CancelSave(h) ==
    /\ pc[h] = "cancel"
    /\ \E r \in Reasons :
        Saved(h, Request(r, now), LicenseViewSet_cancel(req[h].license_obj, r, now))
    /\ UNCHANGED <<now, activations, resp, db>>

\* ------------------------------------------------- the tables of the service

\* Empty tables: the specifications of one license keep its row in `lic` and
\* its activations in `activations`.
NoTables ==
    [brands |-> <<>>, products |-> <<>>, license_keys |-> <<>>,
     licenses |-> <<>>, activations |-> <<>>]

\* request.user: the email address and whether the user is a license admin
\* or staff.
Users ==
    {[email |-> "ann@x.org", is_license_admin |-> FALSE],
     [email |-> "bob@x.org", is_license_admin |-> FALSE],
     [email |-> "ops@x.org", is_license_admin |-> TRUE]}

\* A Brand row.
NewBrand == [is_active |-> TRUE]

\* A Product row.
NewProduct(brand, slug) == [brand |-> brand, slug |-> slug, is_active |-> TRUE]

\* A LicenseKey row; its key string is its id.
NewLicenseKey(brand, customer_email, is_active) ==
    [brand |-> brand, customer_email |-> customer_email, is_active |-> is_active]

\* A License row of the tables: the License fields and its two foreign keys.
LicenseRow(license_key, product, l) ==
    [license_key |-> license_key, product |-> product, status |-> l.status,
     seats |-> l.seats, expiration_date |-> l.expiration_date]

\* An Activation row of the tables: the Activation fields and its license.
ActivationRow(license, a) ==
    [license |-> license, instance_identifier |-> a.instance_identifier,
     is_active |-> a.is_active, deactivated_at |-> a.deactivated_at,
     deactivation_reason |-> a.deactivation_reason]

\* activation.license.license_key.customer_email
customer_email(t, activation) ==
    t.license_keys[t.licenses[activation.license].license_key].customer_email

\* The ids a caller may put in an activation_ids list (one of no row among
\* them) and the lists: at most MaxIds ids, repetitions included.
ActivationIds == 1..(NumActivations + 1)
IdLists == UNION {[1..n -> ActivationIds] : n \in 0..MaxIds}

RECURSIVE bulk_deactivate_loop_aborting(_, _, _, _, _, _, _, _, _)
RECURSIVE bulk_deactivate_loop_unscoped(_, _, _, _, _, _, _, _, _)
RECURSIVE bulk_deactivate_loop_stale(_, _, _, _, _, _, _, _, _)
RECURSIVE bulk_deactivate_loop(_, _, _, _, _, _, _, _, _)

\* The loop as it would be if the first error ended it.
bulk_deactivate_loop_aborting(t, rows, user, activation_ids, k, reason, at, deactivated_count, errors) ==
    IF k > Len(activation_ids)
    THEN [rows |-> rows, deactivated_count |-> deactivated_count, errors |-> errors]
    ELSE LET activation_id == activation_ids[k]
             found == /\ activation_id \in DOMAIN rows
                      /\ customer_email(t, rows[activation_id]) = user.email
         IN  IF ~found
             THEN [rows |-> rows, deactivated_count |-> deactivated_count,
                   errors |-> Append(errors, <<activation_id, "not found or access denied">>)]
             ELSE IF rows[activation_id].is_active
             THEN bulk_deactivate_loop_aborting(t,
                    [rows EXCEPT ![activation_id] = Activation_deactivate(@, reason, at)],
                    user, activation_ids, k + 1, reason, at, deactivated_count + 1, errors)
             ELSE [rows |-> rows, deactivated_count |-> deactivated_count,
                   errors |-> Append(errors, <<activation_id, "is already deactivated">>)]

\* The loop as it would be if it looked the activation up by id alone.
bulk_deactivate_loop_unscoped(t, rows, user, activation_ids, k, reason, at, deactivated_count, errors) ==
    IF k > Len(activation_ids)
    THEN [rows |-> rows, deactivated_count |-> deactivated_count, errors |-> errors]
    ELSE LET activation_id == activation_ids[k]
             found == activation_id \in DOMAIN rows
         IN  IF ~found
             THEN bulk_deactivate_loop_unscoped(t, rows, user, activation_ids, k + 1, reason, at,
                    deactivated_count,
                    Append(errors, <<activation_id, "not found or access denied">>))
             ELSE IF rows[activation_id].is_active
             THEN bulk_deactivate_loop_unscoped(t,
                    [rows EXCEPT ![activation_id] = Activation_deactivate(@, reason, at)],
                    user, activation_ids, k + 1, reason, at, deactivated_count + 1, errors)
             ELSE bulk_deactivate_loop_unscoped(t, rows, user, activation_ids, k + 1, reason, at,
                    deactivated_count,
                    Append(errors, <<activation_id, "is already deactivated">>))

\* The loop as it would be if it tested is_active on the rows read before
\* the loop began.
bulk_deactivate_loop_stale(t, rows, user, activation_ids, k, reason, at, deactivated_count, errors) ==
    IF k > Len(activation_ids)
    THEN [rows |-> rows, deactivated_count |-> deactivated_count, errors |-> errors]
    ELSE LET activation_id == activation_ids[k]
             found == /\ activation_id \in DOMAIN rows
                      /\ customer_email(t, rows[activation_id]) = user.email
         IN  IF ~found
             THEN bulk_deactivate_loop_stale(t, rows, user, activation_ids, k + 1, reason, at,
                    deactivated_count,
                    Append(errors, <<activation_id, "not found or access denied">>))
             ELSE IF t.activations[activation_id].is_active
             THEN bulk_deactivate_loop_stale(t,
                    [rows EXCEPT ![activation_id] = Activation_deactivate(@, reason, at)],
                    user, activation_ids, k + 1, reason, at, deactivated_count + 1, errors)
             ELSE bulk_deactivate_loop_stale(t, rows, user, activation_ids, k + 1, reason, at,
                    deactivated_count,
                    Append(errors, <<activation_id, "is already deactivated">>))

\* The loop of bulk_deactivate over activation_ids[k..], at time at: rows is
\* the activations table so far; an id with no row in the caller's scope
\* (Activation.DoesNotExist) and an id of an inactive row add an error.
bulk_deactivate_loop(t, rows, user, activation_ids, k, reason, at, deactivated_count, errors) ==
    IF k > Len(activation_ids)
    THEN [rows |-> rows, deactivated_count |-> deactivated_count, errors |-> errors]
    ELSE LET activation_id == activation_ids[k]
             found == /\ activation_id \in DOMAIN rows
                      /\ customer_email(t, rows[activation_id]) = user.email
         IN  IF ~found
             THEN bulk_deactivate_loop(t, rows, user, activation_ids, k + 1, reason, at,
                    deactivated_count,
                    Append(errors, <<activation_id, "not found or access denied">>))
             ELSE IF rows[activation_id].is_active
             THEN bulk_deactivate_loop(t,
                    [rows EXCEPT ![activation_id] = Activation_deactivate(@, reason, at)],
                    user, activation_ids, k + 1, reason, at, deactivated_count + 1, errors)
             ELSE bulk_deactivate_loop(t, rows, user, activation_ids, k + 1, reason, at,
                    deactivated_count,
                    Append(errors, <<activation_id, "is already deactivated">>))

\* ActivationViewSet.bulk_deactivate on tables t at time at: the response and
\* the activations table it leaves.
ActivationViewSet_bulk_deactivate(t, user, activation_ids, reason, at) ==
    IF activation_ids = <<>>
    THEN [op |-> "bulk_deactivate", code |-> 400, success |-> FALSE,
          deactivated_count |-> 0, errors |-> <<>>, rows |-> t.activations]
    ELSE LET r == bulk_deactivate_loop(t, t.activations, user, activation_ids, 1,
                                       reason, at, 0, <<>>)
         IN  [op |-> "bulk_deactivate", code |-> 200, success |-> TRUE,
              deactivated_count |-> r.deactivated_count, errors |-> r.errors,
              rows |-> r.rows]

\* Handler h serves one bulk_deactivate request, whole, and keeps the
\* request it served; MaxRequests requests are followed.
BulkDeactivateBy(h, user, activation_ids, reason) ==
    LET r == ActivationViewSet_bulk_deactivate(db, user, activation_ids, reason, now)
    IN  /\ pc[h] = "idle"
        /\ Cardinality({g \in Handlers : pc[g] = "done"}) < MaxRequests
        /\ pc' = [pc EXCEPT ![h] = "done"]
        /\ req' = [req EXCEPT ![h] = [instance_identifier |-> None, user |-> user,
                                      activation_ids |-> activation_ids,
                                      reason |-> reason]]
        /\ db' = [db EXCEPT !.activations = r.rows]
        /\ resp' = [op |-> r.op, code |-> r.code, success |-> r.success,
                    deactivated_count |-> r.deactivated_count, errors |-> r.errors]
        /\ UNCHANGED <<now, lic, last, activations>>

BulkDeactivate(h) ==
    \E user \in Users, activation_ids \in IdLists, reason \in Reasons :
        BulkDeactivateBy(h, user, activation_ids, reason)

\* A license key as a caller writes it: the key of a LicenseKey row (its
\* id), a well-formed key of no row, or a string that is too short.
MalformedKey == 0
UnknownKey == 3
KeyInputs == {MalformedKey, 1, 2, UnknownKey}

\* A product slug as a caller writes it; "" when the field is left out.
NoSlug == ""
SlugInputs == {NoSlug, "pro", "addon", "other"}

\* LicenseStatusSerializer.validate_license_key
validate_license_key(value) == value # MalformedKey

\* A Python value that may be None: no element, or the value.
Null == <<>>
Some(x) == <<x>>

\* license.activations of license id in tables t.
ActivationsOf(t, id) ==
    [a \in {b \in DOMAIN t.activations : t.activations[b].license = id}
        |-> t.activations[a]]

\* license_key_obj.licenses.filter(status='valid', expiration_date__gt=now),
\* narrowed by product__slug when a slug is given: the ids of the licenses.
licenses_filter(t, license_key, product_slug, at) ==
    {l \in DOMAIN t.licenses :
        /\ t.licenses[l].license_key = license_key
        /\ t.licenses[l].status = "valid"
        /\ t.licenses[l].expiration_date > at
        /\ product_slug # NoSlug =>
                t.products[t.licenses[l].product].slug = product_slug}

\* Activation.objects.filter(license__in=licenses, instance_identifier=...,
\*                           is_active=True).first(), newest first
activations_first(t, licenses, instance_identifier) ==
    First({a \in DOMAIN t.activations :
            /\ t.activations[a].license \in licenses
            /\ t.activations[a].instance_identifier = instance_identifier
            /\ t.activations[a].is_active})

\* check_status as it would be if it recorded the instance it was asked about.
LicenseServiceViewSet_check_status_recording(t, license_key, product_slug, instance_identifier, at) ==
    [code |-> 200, valid |-> TRUE, error |-> "", licenses |-> <<>>,
     tables |-> [t EXCEPT !.activations =
                    Append(@, ActivationRow(1, NewActivation(instance_identifier)))]]

\* LicenseServiceViewSet.check_status on tables t at time at: the response
\* (its licenses entry maps each reported license id to the data reported)
\* and the tables it leaves.
LicenseServiceViewSet_check_status(t, license_key, product_slug, instance_identifier, at) ==
    IF ~validate_license_key(license_key)
    THEN [code |-> 400, valid |-> FALSE, error |-> "Invalid license key format.",
          licenses |-> <<>>, tables |-> t]
    ELSE IF ~(license_key \in DOMAIN t.license_keys /\ t.license_keys[license_key].is_active)
    THEN [code |-> 404, valid |-> FALSE, error |-> "Invalid or inactive license key",
          licenses |-> <<>>, tables |-> t]
    ELSE LET licenses == licenses_filter(t, license_key, product_slug, at)
             activation ==
                IF instance_identifier = None THEN None
                ELSE activations_first(t, licenses, instance_identifier)
             instance_info ==
                IF activation = None THEN Null
                ELSE Some([instance_identifier |->
                                t.activations[activation].instance_identifier])
         IN  IF licenses = {}
             THEN [code |-> 404, valid |-> FALSE,
                   error |-> "No valid licenses found for this key",
                   licenses |-> <<>>, tables |-> t]
             ELSE [code |-> 200, valid |-> TRUE, error |-> "",
                   licenses |-> [l \in licenses |->
                        [product_slug |-> t.products[t.licenses[l].product].slug,
                         status |-> t.licenses[l].status,
                         seats |-> t.licenses[l].seats,
                         available_seats |->
                            available_seats(t.licenses[l], ActivationsOf(t, l)),
                         expiration_date |-> t.licenses[l].expiration_date,
                         is_expired |-> is_expired(t.licenses[l], at),
                         instance_info |->
                            IF instance_identifier = None THEN Null
                            ELSE Some(instance_info)]],
                   tables |-> t]

\* One check_status request, served whole; the response keeps the request.
CheckStatus ==
    \E license_key \in KeyInputs, product_slug \in SlugInputs,
       instance_identifier \in Instances \cup {None} :
        LET r == LicenseServiceViewSet_check_status(db, license_key, product_slug,
                                                    instance_identifier, now)
        IN  /\ db' = r.tables
            /\ resp' = [op |-> "check_status", code |-> r.code, valid |-> r.valid,
                        error |-> r.error, licenses |-> r.licenses,
                        license_key |-> license_key, product_slug |-> product_slug,
                        instance_identifier |-> instance_identifier, at |-> now]
            /\ UNCHANGED <<now, lic, last, activations, pc, req>>

\* ------------------------------------ activate and deactivate on the tables

\* license_key_obj.licenses.filter(product__slug=..., status='valid',
\* expiration_date__gt=timezone.now()): the rows that licenses.get(...) of
\* activate finds; the product's is_active is no part of the lookup.
licenses_get_rows(t, license_key, product_slug, at) ==
    {l \in DOMAIN t.licenses :
        /\ t.licenses[l].license_key = license_key
        /\ t.products[t.licenses[l].product].slug = product_slug
        /\ licenses_get(t.licenses[l], at)}

\* LicenseKey.objects.get(key=...) as it would be without is_active=True.
LicenseKey_objects_get_inactive(t, license_key) ==
    license_key \in DOMAIN t.license_keys

\* LicenseKey.objects.get(key=license_key, is_active=True) finds a row.
LicenseKey_objects_get(t, license_key) ==
    license_key \in DOMAIN t.license_keys /\ t.license_keys[license_key].is_active

\* The seat check of activate as it would be if it never refused.
seats_exhausted_never(l, rows) == FALSE

\* if license_obj.available_seats <= 0
seats_exhausted(l, rows) == available_seats(l, rows) <= 0

\* LicenseServiceViewSet.activate, the whole handler when no other request
\* runs beside it: the serializer, the key and license lookups, the answer
\* for an instance already active, the seat check, the insert (refused by
\* unique_together when an inactive row of the instance exists) and the
\* response with available_seats read again after the insert.
LicenseServiceViewSet_activate(t, license_key, product_slug, instance_identifier, at) ==
    LET found == licenses_get_rows(t, license_key, product_slug, at)
        answer(code, error, license, id, seats_left, tables) ==
            [code |-> code, error |-> error, license |-> license,
             activation_id |-> id, available_seats |-> seats_left,
             tables |-> tables]
    IN  IF ~validate_license_key(license_key)
        THEN answer(400, "Invalid license key format.", None, None, None, t)
        ELSE IF ~LicenseKey_objects_get(t, license_key)
        THEN answer(404, "Invalid or inactive license key", None, None, None, t)
        ELSE IF found = {}
        THEN answer(404, "No valid license found for this product", None, None, None, t)
        ELSE IF Cardinality(found) > 1
        THEN answer(500, "MultipleObjectsReturned", None, None, None, t)
        ELSE LET license == CHOOSE l \in found : TRUE
                 rows == ActivationsOf(t, license)
                 existing_activation == First(ActiveOf(rows, instance_identifier))
                 created == [t EXCEPT !.activations = Append(@,
                                ActivationRow(license, NewActivation(instance_identifier)))]
             IN  IF existing_activation # None
                 THEN answer(200, "License already activated for this instance",
                             license, existing_activation, None, t)
                 ELSE IF seats_exhausted(t.licenses[license], rows)
                 THEN answer(400, "No available seats for this license",
                             license, None, None, t)
                 ELSE IF ~unique_together(rows, instance_identifier)
                 THEN answer(500, "IntegrityError", license, None, None, t)
                 ELSE answer(200, "License activated successfully", license,
                             Len(t.activations) + 1,
                             available_seats(t.licenses[license],
                                             ActivationsOf(created, license)) - 1,
                             created)

\* An activate request is served from arrival to response.
Activate ==
    \E license_key \in KeyInputs, product_slug \in SlugInputs \ {NoSlug},
       instance_identifier \in Instances :
        LET r == LicenseServiceViewSet_activate(db, license_key, product_slug,
                                                instance_identifier, now)
        IN  /\ db' = r.tables
            /\ resp' = [op |-> "activate", code |-> r.code, error |-> r.error,
                        license |-> r.license, activation_id |-> r.activation_id,
                        available_seats |-> r.available_seats,
                        license_key |-> license_key, product_slug |-> product_slug,
                        instance_identifier |-> instance_identifier]
            /\ UNCHANGED <<now, lic, last, activations, pc, req>>

\* ActivationViewSet.get_queryset: the activations the user may address.
ActivationViewSet_get_queryset(t, user) ==
    {a \in DOMAIN t.activations :
        \/ user.is_license_admin
        \/ customer_email(t, t.activations[a]) = user.email}

\* ActivationViewSet.deactivate, the whole handler when no other request
\* runs beside it.
ActivationViewSet_deactivate(t, user, id, reason, at) ==
    IF id \notin ActivationViewSet_get_queryset(t, user)
    THEN [code |-> 404, error |-> "Not found.", tables |-> t]
    ELSE IF ~t.activations[id].is_active
    THEN [code |-> 400, error |-> "Activation is already deactivated.", tables |-> t]
    ELSE [code |-> 200, error |-> "",
          tables |-> [t EXCEPT !.activations[id] =
                        ActivationRow(@.license, Activation_deactivate(@, reason, at))]]

\* A deactivate request is served from arrival to response.
Deactivate ==
    \E user \in Users, id \in ActivationIds, reason \in Reasons :
        LET r == ActivationViewSet_deactivate(db, user, id, reason, now)
        IN  /\ db' = r.tables
            /\ resp' = [op |-> "deactivate", code |-> r.code, error |-> r.error,
                        id |-> id]
            /\ UNCHANGED <<now, lic, last, activations, pc, req>>

\* The id lists of the bulk_deactivate requests that are followed among
\* activate and deactivate requests: at most MaxBulk ids.
BulkLists == {activation_ids \in IdLists : Len(activation_ids) <= MaxBulk}

\* A bulk_deactivate request is served from arrival to response.
BulkDeactivateRequest ==
    \E user \in Users, activation_ids \in BulkLists, reason \in Reasons :
        LET r == ActivationViewSet_bulk_deactivate(db, user, activation_ids, reason, now)
        IN  /\ db' = [db EXCEPT !.activations = r.rows]
            /\ resp' = [op |-> "bulk_deactivate", code |-> r.code,
                        deactivated_count |-> r.deactivated_count,
                        errors |-> Len(r.errors)]
            /\ UNCHANGED <<now, lic, last, activations, pc, req>>

\* ------------------------------------ provision, license create and update

\* The seat counts a request may carry (Null: the request has no seats
\* field), the expiration dates (now or later), the customer emails ("": none
\* given), the brand and product ids (the last of each is the id of no row).
SeatsInputs == {Null} \cup {Some(n) : n \in (0 - 1)..MaxSeats}
ExpirationInputs == {0, MaxTime}
EmailInputs == {"", "ann@x.org", "bob@x.org"}
BrandInputs == 1..2
ProductInputs == 1..3

\* LicenseKey.objects.get_or_create(customer_email, brand): the id of the
\* key and the rows of the table afterwards.
get_or_create(license_keys, email, brand) ==
    LET found == {k \in DOMAIN license_keys :
                    /\ license_keys[k].customer_email = email
                    /\ license_keys[k].brand = brand}
    IN  IF found # {}
        THEN [id |-> First(found), rows |-> license_keys]
        ELSE [id |-> Len(license_keys) + 1,
              rows |-> Append(license_keys, NewLicenseKey(brand, email, TRUE))]

\* LicenseServiceViewSet.provision: seats is taken from the request as it
\* is (1 if absent) and stored by License.objects.create, which runs no
\* validator; the column of a PositiveIntegerField refuses a negative value
\* (IntegrityError, unhandled, the atomic block rolled back).
LicenseServiceViewSet_provision(t, user, email, brand_id, product_id, seats_given, expiration_date) ==
    LET seats == IF seats_given = Null THEN 1 ELSE seats_given[1]
        refused(code, error) ==
            [code |-> code, error |-> error, license_id |-> None, tables |-> t]
    IN  IF ~user.is_license_admin
        THEN refused(403, "Only license admins can provision licenses.")
        ELSE IF email = ""
        THEN refused(400, "Missing required fields")
        ELSE IF ~(/\ brand_id \in DOMAIN t.brands
                  /\ t.brands[brand_id].is_active
                  /\ product_id \in DOMAIN t.products
                  /\ t.products[product_id].brand = brand_id
                  /\ t.products[product_id].is_active)
        THEN refused(400, "Invalid brand or product")
        ELSE IF seats < 0
        THEN refused(500, "IntegrityError")
        ELSE LET license_key == get_or_create(t.license_keys, email, brand_id)
             IN  [code |-> 201, error |-> "",
                  license_id |-> Len(t.licenses) + 1,
                  tables |->
                    [t EXCEPT
                        !.license_keys = license_key.rows,
                        !.licenses = Append(@,
                            LicenseRow(license_key.id, product_id,
                                NewLicense("valid", seats, expiration_date)))]]

\* LicenseSerializer.validate on the fields the request carries: the error
\* message, "" if there is none.
LicenseSerializer_validate(seats_given, expiration_given, at) ==
    IF expiration_given # Null /\ expiration_given[1] <= at
    THEN "Expiration date must be in the future."
    ELSE IF seats_given # Null /\ seats_given[1] <= 0
    THEN "Seats must be a positive number."
    ELSE ""

\* LicenseViewSet.create (POST /licenses/): the serializer validates, then
\* saves a row with the model defaults for the fields not given.
LicenseViewSet_create(t, license_key_id, product_id, seats_given, expiration_date, at) ==
    LET error == LicenseSerializer_validate(seats_given, Some(expiration_date), at)
    IN  IF error # ""
        THEN [code |-> 400, error |-> error, license_id |-> None, tables |-> t]
        ELSE [code |-> 201, error |-> "",
              license_id |-> Len(t.licenses) + 1,
              tables |->
                [t EXCEPT !.licenses = Append(@,
                    LicenseRow(license_key_id, product_id,
                        NewLicense("valid",
                                   IF seats_given = Null THEN 1 ELSE seats_given[1],
                                   expiration_date)))]]

\* LicenseViewSet.get_queryset: the licenses the user may address.
LicenseViewSet_get_queryset(t, user) ==
    {l \in DOMAIN t.licenses :
        \/ user.is_license_admin
        \/ t.license_keys[t.licenses[l].license_key].customer_email = user.email}

\* LicenseViewSet.partial_update (PATCH /licenses/{id}/) with a seats field,
\* an expiration_date field, or both.
LicenseViewSet_partial_update(t, user, id, seats_given, expiration_given, at) ==
    LET error == LicenseSerializer_validate(seats_given, expiration_given, at)
    IN  IF id \notin LicenseViewSet_get_queryset(t, user)
        THEN [code |-> 404, error |-> "Not found.", license_id |-> None, tables |-> t]
        ELSE IF error # ""
        THEN [code |-> 400, error |-> error, license_id |-> None, tables |-> t]
        ELSE [code |-> 200, error |-> "", license_id |-> id,
              tables |->
                [t EXCEPT
                    !.licenses[id].seats =
                        IF seats_given = Null THEN @ ELSE seats_given[1],
                    !.licenses[id].expiration_date =
                        IF expiration_given = Null THEN @ ELSE expiration_given[1]]]

\* The answer to a request that carried seats_given, and the tables after it.
Answered(op, seats_given, r) ==
    /\ Len(r.tables.licenses) <= MaxLicenses
    /\ db' = r.tables
    /\ resp' = [op |-> op, code |-> r.code, error |-> r.error,
                license_id |-> r.license_id, seats |-> seats_given]
    /\ UNCHANGED <<now, lic, last, activations, pc, req>>

Provision ==
    \E user \in Users, email \in EmailInputs, brand_id \in BrandInputs,
       product_id \in ProductInputs, seats_given \in SeatsInputs,
       expiration_date \in ExpirationInputs :
        Answered("provision", seats_given,
                 LicenseServiceViewSet_provision(db, user, email, brand_id,
                        product_id, seats_given, expiration_date))

LicenseCreate ==
    \E license_key_id \in DOMAIN db.license_keys, product_id \in DOMAIN db.products,
       seats_given \in SeatsInputs, expiration_date \in ExpirationInputs :
        Answered("create", seats_given,
                 LicenseViewSet_create(db, license_key_id, product_id,
                        seats_given, expiration_date, now))

LicenseUpdate ==
    \E user \in Users, id \in 1..MaxLicenses, seats_given \in SeatsInputs,
       expiration_given \in {Null} \cup {Some(d) : d \in ExpirationInputs} :
        Answered("partial_update", seats_given,
                 LicenseViewSet_partial_update(db, user, id, seats_given,
                        expiration_given, now))

\* ------------------------------------- the activation create and update

\* ActivationSerializer.validate on a request with license_id and
\* instance_identifier: the error message, "" if there is none.
ActivationSerializer_validate(t, license_id, instance_identifier) ==
    IF \E a \in DOMAIN t.activations :
            /\ t.activations[a].license = license_id
            /\ t.activations[a].instance_identifier = instance_identifier
            /\ t.activations[a].is_active
    THEN "An active activation already exists for this license and instance."
    ELSE ""

\* ActivationViewSet.create (POST /activations/): the serializer validates,
\* then saves the row; the store refuses a license_id of no license and a
\* second row of the license and instance (IntegrityError, unhandled).
ActivationViewSet_create(t, license_id, instance_identifier, is_active) ==
    LET error == ActivationSerializer_validate(t, license_id, instance_identifier)
        refused(code, message) ==
            [code |-> code, error |-> message, id |-> None, tables |-> t]
    IN  IF error # ""
        THEN refused(400, error)
        ELSE IF license_id \notin DOMAIN t.licenses
        THEN refused(500, "IntegrityError")
        ELSE IF ~unique_together(ActivationsOf(t, license_id), instance_identifier)
        THEN refused(500, "IntegrityError")
        ELSE [code |-> 201, error |-> "", id |-> Len(t.activations) + 1,
              tables |-> [t EXCEPT !.activations = Append(@,
                    ActivationRow(license_id,
                        [NewActivation(instance_identifier) EXCEPT
                            !.is_active = is_active]))]]

\* ActivationViewSet.partial_update (PATCH /activations/{id}/) with an
\* is_active field: the request has no license_id, so validate checks
\* nothing.
ActivationViewSet_partial_update(t, user, id, is_active) ==
    IF id \notin ActivationViewSet_get_queryset(t, user)
    THEN [code |-> 404, error |-> "Not found.", id |-> None, tables |-> t]
    ELSE [code |-> 200, error |-> "", id |-> id,
          tables |-> [t EXCEPT !.activations[id].is_active = is_active]]

\* The answer to a request of the activation endpoints and the tables after it.
AnsweredActivation(op, r) ==
    /\ db' = r.tables
    /\ resp' = [op |-> op, code |-> r.code, error |-> r.error, id |-> r.id]
    /\ UNCHANGED <<now, lic, last, activations, pc, req>>

ActivationCreate ==
    \E license_id \in 1..MaxLicenses, instance_identifier \in Instances,
       is_active \in BOOLEAN :
        AnsweredActivation("activation_create",
            ActivationViewSet_create(db, license_id, instance_identifier, is_active))

ActivationUpdate ==
    \E user \in Users, id \in ActivationIds, is_active \in BOOLEAN :
        AnsweredActivation("activation_partial_update",
            ActivationViewSet_partial_update(db, user, id, is_active))

\* ------------------------------------------------ the destroy endpoints

\* The ids a DELETE request may name: no table has more rows.
DeleteIds == 1..NumActivations

\* The rows of a table whose ids are in keep.
Kept(table, keep) == [k \in keep |-> table[k]]

\* Model.delete as it would be if License.product were no cascading
\* foreign key: the licenses of a deleted product stay.
Model_delete_keeping_licenses(t, brand_ids, product_ids, key_ids, license_ids, activation_ids) ==
    LET ps == product_ids \cup {p \in DOMAIN t.products : t.products[p].brand \in brand_ids}
        ks == key_ids \cup
                {k \in DOMAIN t.license_keys : t.license_keys[k].brand \in brand_ids}
        ls == license_ids \cup
                {l \in DOMAIN t.licenses : t.licenses[l].license_key \in ks}
        as == activation_ids \cup
                {a \in DOMAIN t.activations : t.activations[a].license \in ls}
    IN  [brands |-> Kept(t.brands, DOMAIN t.brands \ brand_ids),
         products |-> Kept(t.products, DOMAIN t.products \ ps),
         license_keys |-> Kept(t.license_keys, DOMAIN t.license_keys \ ks),
         licenses |-> Kept(t.licenses, DOMAIN t.licenses \ ls),
         activations |-> Kept(t.activations, DOMAIN t.activations \ as)]

\* Model.delete of the given rows: the collector follows every foreign key
\* declared with on_delete=CASCADE (Product.brand, LicenseKey.brand,
\* License.license_key, License.product, Activation.license) and deletes the
\* rows it reaches with them.
Model_delete(t, brand_ids, product_ids, key_ids, license_ids, activation_ids) ==
    LET ps == product_ids \cup {p \in DOMAIN t.products : t.products[p].brand \in brand_ids}
        ks == key_ids \cup
                {k \in DOMAIN t.license_keys : t.license_keys[k].brand \in brand_ids}
        ls == license_ids \cup
                {l \in DOMAIN t.licenses : \/ t.licenses[l].license_key \in ks
                                           \/ t.licenses[l].product \in ps}
        as == activation_ids \cup
                {a \in DOMAIN t.activations : t.activations[a].license \in ls}
    IN  [brands |-> Kept(t.brands, DOMAIN t.brands \ brand_ids),
         products |-> Kept(t.products, DOMAIN t.products \ ps),
         license_keys |-> Kept(t.license_keys, DOMAIN t.license_keys \ ks),
         licenses |-> Kept(t.licenses, DOMAIN t.licenses \ ls),
         activations |-> Kept(t.activations, DOMAIN t.activations \ as)]

\* BrandViewSet.get_queryset
BrandViewSet_get_queryset(t, user) ==
    {b \in DOMAIN t.brands : user.is_license_admin \/ t.brands[b].is_active}

\* ProductViewSet.get_queryset
ProductViewSet_get_queryset(t, user) ==
    {p \in DOMAIN t.products :
        \/ user.is_license_admin
        \/ t.products[p].is_active /\ t.brands[t.products[p].brand].is_active}

\* LicenseKeyViewSet.get_queryset
LicenseKeyViewSet_get_queryset(t, user) ==
    {k \in DOMAIN t.license_keys :
        user.is_license_admin \/ t.license_keys[k].customer_email = user.email}

\* DELETE on a row of the queryset: 404 when the user's queryset has no row
\* with this id, else the row and what cascades from it are deleted (204).
Destroyed(op, id, queryset, tables) ==
    /\ IF id \in queryset
       THEN db' = tables /\ resp' = [op |-> op, code |-> 204, id |-> id]
       ELSE db' = db /\ resp' = [op |-> op, code |-> 404, id |-> id]
    /\ UNCHANGED <<now, lic, last, activations, pc, req>>

BrandDestroy ==
    \E user \in Users, id \in DeleteIds :
        Destroyed("brand_destroy", id, BrandViewSet_get_queryset(db, user),
                  Model_delete(db, {id}, {}, {}, {}, {}))

ProductDestroy ==
    \E user \in Users, id \in DeleteIds :
        Destroyed("product_destroy", id, ProductViewSet_get_queryset(db, user),
                  Model_delete(db, {}, {id}, {}, {}, {}))

LicenseKeyDestroy ==
    \E user \in Users, id \in DeleteIds :
        Destroyed("license_key_destroy", id, LicenseKeyViewSet_get_queryset(db, user),
                  Model_delete(db, {}, {}, {id}, {}, {}))

LicenseDestroy ==
    \E user \in Users, id \in DeleteIds :
        Destroyed("license_destroy", id, LicenseViewSet_get_queryset(db, user),
                  Model_delete(db, {}, {}, {}, {id}, {}))

ActivationDestroy ==
    \E user \in Users, id \in DeleteIds :
        Destroyed("activation_destroy", id, ActivationViewSet_get_queryset(db, user),
                  Model_delete(db, {}, {}, {}, {}, {id}))

\* ----------------------------------------------------- the specifications

NoRequest(l) ==
    [op |-> "none", input |-> None, at |-> 0,
     outcome |-> "none", error |-> <<>>, pre |-> l, logged |-> <<>>]

\* A license as the create endpoint stores it: any status choice, a future
\* expiration date (LicenseSerializer.validate), the default seat count.
Init ==
    /\ now = 0
    /\ \E s \in STATUS_CHOICES, e \in 1..MaxTime : lic = NewLicense(s, 1, e)
    /\ last = NoRequest(lic)
    /\ activations = <<>>
    /\ pc = Idle
    /\ req = NoLocals
    /\ resp = NoResponse
    /\ db = NoTables

Next ==
    \/ Renew
    \/ Suspend
    \/ Resume
    \/ Cancel
    \/ ChangeStatus
    \/ Tick

\* The lifecycle of one license, its requests served one at a time.
Spec == Init /\ [][Next]_vars

\* A license as provision stores it (status valid, a future expiration date,
\* the seat count asked for), with no activation yet or with one that
\* instance 1 holds; or such a license after one renewal.
InitActivation ==
    /\ now = 0
    /\ \E n \in 1..MaxSeats, e \in 1..MaxTime :
        LET l == NewLicense("valid", n, e)
        IN  lic \in {l, License_renew(l, MaxTime + 1).lic}
    /\ last = NoRequest(lic)
    /\ activations \in {<<>>, Activation_create(<<>>, 1).rows}
    /\ pc = Idle
    /\ req = NoLocals
    /\ resp = NoResponse
    /\ db = NoTables

NextActivation ==
    \/ \E h \in Handlers :
        \/ ActivateLookup(h)
        \/ ActivateExisting(h)
        \/ ActivateSeats(h)
        \/ ActivateCreate(h)
        \/ ActivateRespond(h)
        \/ DeactivateLoad(h)
        \/ DeactivateSave(h)
    \/ Tick

\* The activation protocol: NumHandlers request handlers run concurrently
\* against the store, each store query or write being one step.
SpecActivation == InitActivation /\ [][NextActivation]_vars

NextLifecycle ==
    \/ \E h \in Handlers :
        \/ LicenseViewSet_get_object(h)
        \/ RenewSave(h)
        \/ SuspendSave(h)
        \/ ResumeSave(h)
        \/ CancelSave(h)
    \/ Tick

\* The lifecycle of one license under NumHandlers lifecycle requests, one per
\* handler, that may overlap: the read of the row and the save of the changed
\* object are separate steps.
SpecLifecycle == Init /\ [][NextLifecycle]_vars

\* An activation of an instance that was deactivated at time 0, or is active.
ActivationAt0(instance_identifier, is_active) ==
    IF is_active THEN NewActivation(instance_identifier)
    ELSE Activation_deactivate(NewActivation(instance_identifier), "billing", 0)

\* The tables of a service with one brand and two products, a license key of
\* ann (active or not) with a license for each product and a license key of
\* bob with a license for the first product; instances 1 and 2 have
\* activations on ann's first license, instance 2 on her second, instance 1
\* on bob's, each active according to is_active.
ServiceTables(key_active, status, expiration_date, is_active) ==
    [brands |-> <<NewBrand>>,
     products |-> <<NewProduct(1, "pro"), NewProduct(1, "addon")>>,
     license_keys |-> <<NewLicenseKey(1, "ann@x.org", key_active),
                        NewLicenseKey(1, "bob@x.org", TRUE)>>,
     licenses |-> <<LicenseRow(1, 1, NewLicense(status, MaxSeats, expiration_date)),
                    LicenseRow(1, 2, NewLicense("valid", 1, MaxTime)),
                    LicenseRow(2, 1, NewLicense("valid", 1, MaxTime))>>,
     activations |->
        <<ActivationRow(1, ActivationAt0(1, is_active[1])),
          ActivationRow(1, ActivationAt0(2, is_active[2])),
          ActivationRow(2, ActivationAt0(2, is_active[3])),
          ActivationRow(3, ActivationAt0(1, is_active[4]))>>]

InitBulkDeactivate ==
    /\ now = 1
    /\ lic = NewLicense("valid", 1, MaxTime)
    /\ last = NoRequest(lic)
    /\ activations = <<>>
    /\ pc = Idle
    /\ req = NoLocals
    /\ resp = NoResponse
    /\ \E is_active \in [1..NumActivations -> BOOLEAN] :
            db = ServiceTables(TRUE, "valid", MaxTime, is_active)

NextBulkDeactivate == \E h \in Handlers : BulkDeactivate(h)

\* bulk_deactivate requests on tables with activations in and out of the
\* caller's scope, active and inactive.
SpecBulkDeactivate == InitBulkDeactivate /\ [][NextBulkDeactivate]_vars

InitCheckStatus ==
    /\ now = 0
    /\ lic = NewLicense("valid", 1, MaxTime)
    /\ last = NoRequest(lic)
    /\ activations = <<>>
    /\ pc = Idle
    /\ req = NoLocals
    /\ resp = NoResponse
    /\ \E key_active \in BOOLEAN, status \in {"valid", "renewed", "suspended"},
          expiration_date \in 1..MaxTime, first_active \in BOOLEAN, third_active \in BOOLEAN :
            db = ServiceTables(key_active, status, expiration_date,
                               <<first_active, TRUE, third_active, TRUE>>)

NextCheckStatus ==
    \/ CheckStatus
    \/ Tick

\* check_status requests, as time passes, on the tables of a service whose
\* first license is valid, renewed or suspended and expires sooner or later.
SpecCheckStatus == InitCheckStatus /\ [][NextCheckStatus]_vars

\* The tables of ServiceTables with ann's key active or not, the product
\* "addon" active or not and the seat of ann's "addon" license free or taken.
InitResolve ==
    /\ now = 0
    /\ lic = NewLicense("valid", 1, MaxTime)
    /\ last = NoRequest(lic)
    /\ activations = <<>>
    /\ pc = Idle
    /\ req = NoLocals
    /\ resp = NoResponse
    /\ \E key_active \in BOOLEAN, product_active \in BOOLEAN, third_active \in BOOLEAN :
            db = [ServiceTables(key_active, "valid", MaxTime,
                                <<TRUE, TRUE, third_active, TRUE>>)
                    EXCEPT !.products[2].is_active = product_active]

NextResolve ==
    \/ Activate
    \/ CheckStatus

\* activate and check_status requests with every key, slug and instance, on
\* tables with an inactive key or an inactive product.
SpecResolve == InitResolve /\ [][NextResolve]_vars

\* The tables of a service with two brands: brand 1 with the products "pro"
\* and "addon" and the key of ann, brand 2 with the product "other" and the
\* key of bob; ann has a license of each product, bob of "other"; an
\* activation on each license.
InitDestroy ==
    /\ now = 0
    /\ lic = NewLicense("valid", 1, MaxTime)
    /\ last = NoRequest(lic)
    /\ activations = <<>>
    /\ pc = Idle
    /\ req = NoLocals
    /\ resp = NoResponse
    /\ db = [brands |-> <<NewBrand, NewBrand>>,
             products |-> <<NewProduct(1, "pro"), NewProduct(1, "addon"),
                            NewProduct(2, "other")>>,
             license_keys |-> <<NewLicenseKey(1, "ann@x.org", TRUE),
                                NewLicenseKey(2, "bob@x.org", TRUE)>>,
             licenses |-> <<LicenseRow(1, 1, NewLicense("valid", 1, MaxTime)),
                            LicenseRow(1, 2, NewLicense("valid", 1, MaxTime)),
                            LicenseRow(1, 3, NewLicense("valid", 1, MaxTime)),
                            LicenseRow(2, 3, NewLicense("valid", 1, MaxTime))>>,
             activations |-> <<ActivationRow(1, ActivationAt0(1, TRUE)),
                               ActivationRow(2, ActivationAt0(1, TRUE)),
                               ActivationRow(3, ActivationAt0(1, FALSE)),
                               ActivationRow(4, ActivationAt0(2, TRUE))>>]

NextDestroy ==
    \/ BrandDestroy
    \/ ProductDestroy
    \/ LicenseKeyDestroy
    \/ LicenseDestroy
    \/ ActivationDestroy

\* Rows are deleted through the destroy endpoints of the five view sets.
SpecDestroy == InitDestroy /\ [][NextDestroy]_vars

\* The tables of a service where ann has a valid, unexpired license with one
\* seat fewer than there are instances, before any activation; bob has a key
\* and no license.
InitSeats ==
    /\ now = 1
    /\ lic = NewLicense("valid", 1, MaxTime)
    /\ last = NoRequest(lic)
    /\ activations = <<>>
    /\ pc = Idle
    /\ req = NoLocals
    /\ resp = NoResponse
    /\ db = [NoTables EXCEPT
                !.brands = <<NewBrand>>,
                !.products = <<NewProduct(1, "pro"), NewProduct(1, "addon")>>,
                !.license_keys = <<NewLicenseKey(1, "ann@x.org", TRUE),
                                   NewLicenseKey(1, "bob@x.org", TRUE)>>,
                !.licenses = <<LicenseRow(1, 1,
                                NewLicense("valid", NumInstances - 1, MaxTime))>>]

NextSeats ==
    \/ Activate
    \/ Deactivate
    \/ BulkDeactivateRequest

\* activate, deactivate and bulk_deactivate requests served one after the
\* other on licenses whose seat counts do not change.
SpecSeats == InitSeats /\ [][NextSeats]_vars

NextEndpoints ==
    \/ Activate
    \/ ActivationCreate
    \/ ActivationUpdate
    \/ LicenseUpdate

\* activate together with the create and update endpoints of activations and
\* the update endpoint of licenses, on the tables of InitSeats.
SpecEndpoints == InitSeats /\ [][NextEndpoints]_vars

\* A valid license of MaxSeats seats on which instance 1 holds an active
\* activation and instance 2 a deactivated one.
InitLicenseSeats ==
    /\ now = 0
    /\ \E e \in 1..MaxTime : lic = NewLicense("valid", MaxSeats, e)
    /\ last = NoRequest(lic)
    /\ activations = <<ActivationAt0(1, TRUE), ActivationAt0(2, FALSE)>>
    /\ pc = Idle
    /\ req = NoLocals
    /\ resp = NoResponse
    /\ db = NoTables

\* The lifecycle of a license that has activations.
SpecLicenseSeats == InitLicenseSeats /\ [][Next]_vars

\* The tables of a service with one brand, two products and a license key of
\* ann, before any license is sold.
InitProvision ==
    /\ now = 0
    /\ lic = NewLicense("valid", 1, MaxTime)
    /\ last = NoRequest(lic)
    /\ activations = <<>>
    /\ pc = Idle
    /\ req = NoLocals
    /\ resp = NoResponse
    /\ db = [NoTables EXCEPT
                !.brands = <<NewBrand>>,
                !.products = <<NewProduct(1, "pro"), NewProduct(1, "addon")>>,
                !.license_keys = <<NewLicenseKey(1, "ann@x.org", TRUE)>>]

NextProvision ==
    \/ Provision
    \/ LicenseCreate
    \/ LicenseUpdate

\* Licenses are created by provision and by the create endpoint and changed
\* by the update endpoint, with every seat count a request may carry.
SpecProvision == InitProvision /\ [][NextProvision]_vars

\* ------------------------------------------------- the activation protocol

\* The active activations of the license.
Active == {a \in DOMAIN activations : activations[a].is_active}

\* Section 4.2: the license entitles to activation (status and expiration).
Entitled(l, t) == l.status \in {"valid", "renewed"} /\ l.expiration_date > t

\* Handler h sends the response of an activate request in this step.
AnswersActivate(h) ==
    \/ ActivateLookup(h) /\ pc'[h] = "idle"
    \/ ActivateExisting(h) /\ pc'[h] = "idle"
    \/ ActivateSeats(h) /\ pc'[h] = "idle"
    \/ ActivateCreate(h) /\ pc'[h] = "idle"
    \/ ActivateRespond(h)

\* C1: however concurrent activate requests for distinct instances interleave,
\* the license never has more active activations than seats (of N > S
\* requests only S get a seat).
C1_SeatCeiling == Cardinality(Active) <= lic.seats

\* C2: in every reachable state, whatever the interleaving of activate
\* requests, an instance has at most one active activation on the license.
C2_OneActivePerInstance ==
    \A i \in Instances : Cardinality(ActiveOf(activations, i)) <= 1

\* C2 happens: two activate requests of one instance raced; one inserted the
\* only row there is, the other, which had seen no active activation either,
\* was refused by the store.
C2_Witness ==
    /\ resp.op = "activate"
    /\ resp.error = "IntegrityError"
    /\ resp.arrival.rows = {}
    /\ Cardinality(ActiveOf(activations, resp.instance_identifier)) = 1
    /\ Len(activations) = 1

\* C3: an activate request for an instance that has held an active
\* activation since the request arrived, on a license that is entitled,
\* succeeds with the id of that activation and creates no record (so the
\* seat is taken once).
C3_ActivateTwice ==
    [][\A h \in Handlers :
        LET i == resp'.instance_identifier
            held == First(ActiveOf(activations, i))
        IN  (/\ AnswersActivate(h)
             /\ held # None
             /\ resp'.arrival.held = held
             /\ Entitled(lic, now)) =>
                /\ resp'.code = 200
                /\ resp'.activation_id = held
                /\ activations' = activations]_vars

\* C4: the insert of an activate request that arrived after the activation
\* of its instance was deactivated, on a valid, unexpired license with a free
\* seat,
\* creates a new active record with a new id and leaves the deactivated
\* record (is_active, reason, timestamp) as it was.
C4_ReactivateAfterDeactivate ==
    [][\A h \in Handlers :
        LET i == req[h].instance_identifier
        IN  (/\ ActivateCreate(h)
             /\ req[h].arrival.rows # {}
             /\ req[h].arrival.held = None
             /\ ActiveOf(activations, i) = {}
             /\ lic.status = "valid" /\ lic.expiration_date > now
             /\ available_seats(lic, activations) > 0) =>
                /\ Len(activations') = Len(activations) + 1
                /\ activations'[Len(activations')] = NewActivation(i)
                /\ \A a \in DOMAIN activations : activations'[a] = activations[a]
                /\ pc'[h] = "respond"]_vars

\* ------------------------------------------------------------ the lifecycle

\* The request served last reached the model method (its input was valid).
Called(op) == last.op = op /\ last.outcome \in {"success", "ValueError"}

\* The lifecycle fields renew writes.
RenewFields(l) ==
    <<l.status, l.expiration_date, l.original_expiration_date, l.renewal_count>>

\* The stored statuses of the specification's state machine ('expired' is
\* derived there from the expiration date).
LifecycleStates == {"pending", "valid", "renewed", "suspended", "cancelled"}

\* C5: from the statuses of the state machine, renew succeeds exactly when
\* the status is valid or renewed (whether or not the expiration date has
\* passed); it then sets the expiration date to the new date, adds one to the
\* renewal counter and sets the status to renewed; from the other statuses it
\* fails with an error naming the current status.
C5_RenewFromValidOrRenewed ==
    (Called("renew") /\ last.pre.status \in LifecycleStates) =>
        /\ last.outcome = "success" <=> last.pre.status \in {"valid", "renewed"}
        /\ last.outcome = "success" =>
                /\ lic.expiration_date = last.input
                /\ lic.renewal_count = last.pre.renewal_count + 1
                /\ lic.status = "renewed"
        /\ last.outcome = "ValueError" =>
                last.error = <<"Cannot renew license with status", last.pre.status>>

\* C6: a renew call on a license that earlier renew calls have renewed (k - 1
\* >= 1 of them: status renewed, counter k - 1, original expiration T) succeeds
\* too, leaves the original expiration at T and brings the counter to k; the
\* first renewal is the one that writes the original expiration.
C6_SuccessiveRenewals ==
    Called("renew") =>
        /\ (last.pre.status = "renewed" /\ last.pre.renewal_count >= 1
                /\ last.pre.original_expiration_date # None) =>
                /\ last.outcome = "success"
                /\ lic.original_expiration_date = last.pre.original_expiration_date
                /\ lic.renewal_count = last.pre.renewal_count + 1
        /\ (last.pre.status = "valid" /\ last.pre.renewal_count = 0
                /\ last.pre.original_expiration_date = None) =>
                /\ last.outcome = "success"
                /\ lic.original_expiration_date = last.pre.expiration_date
                /\ lic.renewal_count = 1

\* C7: renew on a suspended or cancelled license fails, however long ago the
\* suspension or cancellation was, and leaves status, expiration, original
\* expiration and renewal counter as they were.
C7_RenewRefusedWhenSuspendedOrCancelled ==
    (last.op = "renew" /\ last.pre.status \in {"suspended", "cancelled"}) =>
        /\ last.outcome # "success"
        /\ Called("renew") =>
                last.error = <<"Cannot renew license with status", last.pre.status>>
        /\ RenewFields(lic) = RenewFields(last.pre)

\* C7 happens: a renew refused on a license suspended MaxTime ago.
C7_Witness ==
    /\ Called("renew")
    /\ last.pre.status = "suspended"
    /\ last.pre.suspended_at = 0
    /\ last.at = MaxTime
    /\ last.outcome = "ValueError"

\* C8: cancel succeeds from every stored status other than cancelled (valid,
\* renewed, suspended, pending, a stored 'expired', and whether or not the
\* expiration date has passed), setting status to cancelled and recording
\* the reason and the cancellation time.
C8_CancelFromEveryOtherStatus ==
    (last.op = "cancel" /\ last.pre.status # "cancelled") =>
        /\ last.outcome = "success"
        /\ lic.status = "cancelled"
        /\ lic.cancellation_reason = last.input
        /\ lic.cancelled_at = last.at

\* C9: a cancel on an already cancelled license fails and changes nothing:
\* status, cancellation reason and cancellation time stay as the first cancel
\* wrote them.
C9_SecondCancelFails ==
    (last.op = "cancel" /\ last.pre.status = "cancelled") =>
        /\ last.outcome = "ValueError"
        /\ last.error = <<"Cannot cancel license with status", "cancelled">>
        /\ lic = last.pre

\* C9 happens: a later cancel with another reason is refused on a license a
\* first cancel has cancelled.
C9_Witness ==
    /\ last.op = "cancel"
    /\ last.pre.status = "cancelled"
    /\ last.pre.cancelled_at # None
    /\ last.at > last.pre.cancelled_at
    /\ last.input # last.pre.cancellation_reason
    /\ last.outcome = "ValueError"
    /\ lic.cancelled_at = last.pre.cancelled_at

\* C10: cancelled is terminal for renew, suspend, resume and cancel: each of
\* them, served on a cancelled license, fails and leaves the row as it was, so
\* a run of these four never leaves cancelled.
C10_CancelledIsTerminal ==
    [][(lic.status = "cancelled" /\ (Renew \/ Suspend \/ Resume \/ Cancel)) =>
            /\ lic' = lic
            /\ last'.outcome # "success"]_vars

\* C10 happens: a resume is refused on a cancelled license.
C10_Witness ==
    /\ last.op = "resume"
    /\ last.pre.status = "cancelled"
    /\ last.outcome = "ValueError"
    /\ lic.status = "cancelled"

\* The transition table of section 4.1 as pairs <<status before, status after>>.
TransitionTable ==
    ({"valid", "renewed"} \X {"renewed"})
        \cup ({"valid", "renewed"} \X {"suspended"})
        \cup ({"suspended"} \X {"valid"})
        \cup ((LifecycleStates \ {"cancelled"}) \X {"cancelled"})

\* C11: every change of the stored status made by an exposed operation
\* (change_status included) follows the transition table: renew takes valid
\* or renewed to renewed, suspend takes valid or renewed to suspended, resume
\* takes suspended to valid, cancel takes a non-cancelled status to cancelled;
\* so nothing leaves cancelled, and suspended is left only for valid (resume)
\* or cancelled (cancel).
C11_StatusChangesFollowTable ==
    [][(lic.status \in LifecycleStates /\ lic'.status # lic.status) =>
            /\ <<lic.status, lic'.status>> \in TransitionTable
            /\ lic.status # "cancelled"
            /\ lic.status = "suspended" =>
                    \/ lic'.status = "valid" /\ last'.op = "resume"
                    \/ lic'.status = "cancelled" /\ last'.op = "cancel"]_vars

\* C12: no operation writes 'expired' as the stored status: a status an
\* operation writes is one of pending, valid, renewed, suspended, cancelled.
C12_ExpiredNeverWritten ==
    [][(lic'.status # lic.status) => lic'.status \in LifecycleStates]_vars

\* The fields suspend writes and resume clears.
SuspendFields(l) == <<l.status, l.suspension_reason, l.suspended_at>>

\* C13: suspend succeeds exactly when the status is valid or renewed; it then
\* sets the status to suspended and records the given reason and the time of
\* the request, leaving the other fields alone; from suspended, cancelled or
\* pending it fails and leaves status, suspension reason and suspension
\* timestamp as they were.
C13_SuspendFromValidOrRenewed ==
    last.op = "suspend" =>
        /\ last.outcome = "success" <=> last.pre.status \in {"valid", "renewed"}
        /\ last.outcome = "success" =>
                lic = [last.pre EXCEPT !.status = "suspended",
                                       !.suspension_reason = last.input,
                                       !.suspended_at = last.at]
        /\ last.pre.status \in {"suspended", "cancelled", "pending"} =>
                /\ last.outcome = "ValueError"
                /\ last.error =
                        <<"Cannot suspend license with status", last.pre.status>>
                /\ SuspendFields(lic) = SuspendFields(last.pre)

\* C13 happens: a renewed license is suspended at a later time, and the row
\* holds the reason and that time.
C13_Witness ==
    /\ last.op = "suspend"
    /\ last.pre.status = "renewed"
    /\ last.at > 0
    /\ last.outcome = "success"
    /\ SuspendFields(lic) = <<"suspended", last.input, last.at>>

\* C14: resume succeeds exactly when the status is suspended; it then sets
\* the status to valid, the suspension reason to the empty string and the
\* suspension timestamp to unset, leaving the other fields alone; from any
\* other status it fails and changes nothing.
C14_ResumeFromSuspended ==
    last.op = "resume" =>
        /\ last.outcome = "success" <=> last.pre.status = "suspended"
        /\ last.outcome = "success" =>
                lic = [last.pre EXCEPT !.status = "valid",
                                       !.suspension_reason = "",
                                       !.suspended_at = None]
        /\ last.outcome # "success" =>
                /\ last.error =
                        <<"Cannot resume license with status", last.pre.status>>
                /\ lic = last.pre

\* C14 happens: a license that a suspend request suspended, with a reason and
\* a timestamp, is resumed.
C14_Witness ==
    /\ last.op = "resume"
    /\ last.pre.status = "suspended"
    /\ last.pre.suspension_reason # ""
    /\ last.pre.suspended_at # None
    /\ last.outcome = "success"
    /\ SuspendFields(lic) = <<"valid", "", None>>

\* C15: lifecycle transitions are atomic against the row, so two concurrent
\* lifecycle requests leave what one of their serial orders leaves; in
\* particular, once a cancel request has reported success the stored status
\* is cancelled and no later step of a lifecycle request makes it anything
\* else.
C15_CancelSurvivesConcurrentRequests ==
    [][(last.op = "cancel" /\ last.outcome = "success" /\ lic.status = "cancelled")
            => lic'.status = "cancelled"]_vars

\* ------------------------------------- the activation protocol (continued)

\* Handler h refuses an activate request in this step.
RefusesActivate(h) == AnswersActivate(h) /\ resp'.code \in {400, 404}

\* C16: an activate request for an instance without an active activation
\* creates an activation if and only if, at that moment, the license's status
\* is valid or renewed, its expiration date is later than now and a seat is
\* available: the insert happens only then, and such a request is not turned
\* away (a license renewed to a future date can be activated).
C16_ActivateIffCanActivate ==
    [][\A h \in Handlers :
        /\ (ActivateCreate(h) /\ Len(activations') > Len(activations)) =>
                /\ Entitled(lic, now)
                /\ available_seats(lic, activations) > 0
        /\ (/\ AnswersActivate(h)
            /\ ActiveOf(activations, resp'.instance_identifier) = {}
            /\ resp'.arrival.held = None
            /\ Entitled(lic, now)
            /\ available_seats(lic, activations) > 0) =>
                resp'.code = 200]_vars

\* C17: a refused activate changes no activation and no license, and its
\* outcome tells the cause: an entitled license without a free seat refuses
\* an instance that holds no activation as having no seat (400), a license
\* with a free seat that is not entitled is refused as not entitled (404),
\* and the no-seat refusal is given only when no seat is free.
C17_RefusalTellsTheCause ==
    [][\A h \in Handlers :
        RefusesActivate(h) =>
            /\ activations' = activations
            /\ lic' = lic
            /\ resp'.code = 400 => available_seats(lic, activations) = 0
            /\ (/\ Entitled(lic, now)
                /\ available_seats(lic, activations) = 0
                /\ ActiveOf(activations, resp'.instance_identifier) = {}) =>
                    resp'.code = 400
            /\ (~Entitled(lic, now) /\ available_seats(lic, activations) > 0) =>
                    resp'.code = 404]_vars

\* C18: the check for an active activation of the instance comes before any
\* entitlement check: an activate request for an instance that has held an
\* active activation since the request arrived succeeds with that
\* activation's id and creates nothing also when the license is not entitled
\* (suspended, or at or past its expiration date).
C18_ExistingBeforeEntitlement ==
    [][\A h \in Handlers :
        LET i == resp'.instance_identifier
            held == First(ActiveOf(activations, i))
        IN  (/\ AnswersActivate(h)
             /\ held # None
             /\ resp'.arrival.held = held
             /\ ~Entitled(lic, now)) =>
                /\ resp'.code = 200
                /\ resp'.activation_id = held
                /\ activations' = activations]_vars

\* C19: no activate request ends in an unhandled error: an activate whose
\* insert the store rejects because a concurrent activate for the same
\* instance (which had no row when the request arrived) inserted first is
\* answered with a typed result, success or a 4xx failure.
C19_NoUnhandledError ==
    (resp.op = "activate" /\ resp.arrival.rows = {}) =>
        resp.code \in {200, 400, 404}

\* C20: available_seats is max(0, seats - number of active activations),
\* counted from the activation table as it is now; hence it lies between 0
\* and seats.
C20_AvailableSeats ==
    LET n == Cardinality(Active)
    IN  /\ available_seats(lic, activations) =
                (IF lic.seats >= n THEN lic.seats - n ELSE 0)
        /\ available_seats(lic, activations) \in 0..lic.seats

\* C20 happens: more activations are active than the license has seats, and
\* available_seats is 0.
C20_Witness ==
    /\ Cardinality(Active) > lic.seats
    /\ available_seats(lic, activations) = 0

\* C21: a deactivate request that finds the activation active and writes
\* while it is still active sets is_active to false and records the given
\* reason and the time of the write, and reports success; a deactivate
\* request that finds the activation inactive fails (400, never a success)
\* and leaves the table, with the reason and timestamp of the earlier
\* deactivation, as it was.
C21_DeactivateActiveOnly ==
    [][\A h \in Handlers :
        /\ (DeactivateSave(h) /\ activations[req[h].id].is_active) =>
                /\ activations' = [activations EXCEPT ![req[h].id] =
                        [@ EXCEPT !.is_active = FALSE,
                                  !.deactivated_at = now,
                                  !.deactivation_reason = req[h].reason]]
                /\ resp'.code = 200
        /\ (DeactivateLoad(h) /\ pc'[h] = "save") =>
                activations[req'[h].id].is_active
        /\ (DeactivateLoad(h) /\ pc'[h] = "idle") =>
                /\ resp'.code \in {400, 404}
                /\ activations' = activations]_vars

\* C21 happens: a deactivate request has been refused on an activation that
\* an earlier request deactivated, and the row holds that request's reason
\* and time.
C21_Witness ==
    /\ resp.op = "deactivate"
    /\ resp.code = 400
    /\ resp.error = "Activation is already deactivated."
    /\ ~activations[resp.activation_id].is_active
    /\ activations[resp.activation_id].deactivated_at # None
    /\ activations[resp.activation_id].deactivation_reason \in Reasons

\* C22: of two concurrent deactivate requests for the same active activation
\* one succeeds and the other fails as already inactive: a request whose
\* write comes after the activation has been deactivated reports no success
\* and does not overwrite the stored reason and timestamp.
C22_OneDeactivateWins ==
    [][\A h \in Handlers :
        (DeactivateSave(h) /\ ~activations[req[h].id].is_active) =>
            /\ resp'.code # 200
            /\ activations' = activations]_vars

\* ----------------------------------------------- the lifecycle (continued)

\* C29: a renew request whose new expiration date is not strictly later than
\* the current time is rejected as a validation error and leaves status,
\* expiration, original expiration and renewal counter as they were.
C29_RenewDateInTheFuture ==
    (last.op = "renew" /\ last.input <= last.at) =>
        /\ last.outcome = "ValidationError"
        /\ RenewFields(lic) = RenewFields(last.pre)

\* C29 happens: a renew to the current time itself is rejected on a valid
\* license.
C29_Witness ==
    /\ last.op = "renew"
    /\ last.at > 0
    /\ last.input = last.at
    /\ last.pre.status = "valid"
    /\ last.outcome = "ValidationError"
    /\ lic = last.pre

\* C30: every successful renew, suspend, resume or cancel appends exactly one
\* log entry, which carries the operation, the caller's reason and the actor
\* with its timestamp, and a failed transition appends none.
C30_OneAuditEntryPerTransition ==
    last.op \in LifecycleOps =>
        IF last.outcome = "success"
        THEN /\ Len(last.logged) = 1
             /\ {"operation", "reason", "actor"} \subseteq last.logged[1].carries
        ELSE last.logged = <<>>

\* ------------------------------------------------------------ bulk_deactivate

\* The elements of a list.
Range(f) == {f[k] : k \in DOMAIN f}

\* Activation id is, in tables t, an active activation in the scope of user.
InScopeActive(t, user, id) ==
    /\ id \in DOMAIN t.activations
    /\ customer_email(t, t.activations[id]) = user.email
    /\ t.activations[id].is_active

\* Handler h serves a bulk_deactivate request in this step.
ServesBulkDeactivate(h) ==
    /\ pc[h] = "idle"
    /\ pc'[h] = "done"
    /\ resp'.op = "bulk_deactivate"

\* C23: bulk_deactivate handles every id of a non-empty list on its own: an
\* active activation in the caller's scope is deactivated with the reason and
\* the time of the request, wherever it stands in the list; an id that is not
\* found, not in the caller's scope or already inactive leaves its row alone
\* and adds an error naming it; rows not listed are untouched, the request
\* succeeds and counts the activations it deactivated. (For [1, 2, 3] with 2
\* inactive: 2 successes, one error naming 2, and 1 and 3 inactive.)
C23_BulkDeactivateEachId ==
    [][\A h \in Handlers :
        LET user == req'[h].user
            ids == req'[h].activation_ids
            reason == req'[h].reason
        IN  (ServesBulkDeactivate(h) /\ ids # <<>>) =>
            /\ resp'.code = 200
            /\ resp'.deactivated_count =
                    Cardinality({id \in Range(ids) : InScopeActive(db, user, id)})
            /\ \A id \in DOMAIN db.activations :
                IF id \in Range(ids) /\ InScopeActive(db, user, id)
                THEN db'.activations[id] =
                        [db.activations[id] EXCEPT !.is_active = FALSE,
                                                   !.deactivated_at = now,
                                                   !.deactivation_reason = reason]
                ELSE db'.activations[id] = db.activations[id]
            /\ \A id \in Range(ids) :
                ~InScopeActive(db, user, id) =>
                    \E k \in DOMAIN resp'.errors : resp'.errors[k][1] = id
            /\ \A k \in DOMAIN resp'.errors : resp'.errors[k][1] \in Range(ids)]_vars

\* C23 happens: ann listed her three activations, of which the second was
\* inactive; the result counts 2 and holds one error, naming the second, the
\* other two are inactive and the second keeps its earlier reason and time.
C23_Witness ==
    /\ resp.op = "bulk_deactivate"
    /\ \E h \in Handlers :
        /\ pc[h] = "done"
        /\ req[h].activation_ids = <<1, 2, 3>>
        /\ req[h].reason = "abuse"
    /\ resp.deactivated_count = 2
    /\ resp.errors = << <<2, "is already deactivated">> >>
    /\ ~db.activations[1].is_active
    /\ ~db.activations[3].is_active
    /\ db.activations[1].deactivated_at = 1
    /\ db.activations[3].deactivation_reason = "abuse"
    /\ db.activations[2].deactivated_at = 0
    /\ db.activations[2].deactivation_reason = "billing"

\* C24: bulk_deactivate changes no activation outside the caller's scope (the
\* customer email of its license key is not the caller's email): such a row
\* keeps is_active, reason and timestamp, and when listed it yields an error
\* 'not found or access denied' for its id.
C24_BulkDeactivateInScopeOnly ==
    [][\A h \in Handlers :
        LET user == req'[h].user
            ids == req'[h].activation_ids
        IN  ServesBulkDeactivate(h) =>
            \A id \in DOMAIN db.activations :
                customer_email(db, db.activations[id]) # user.email =>
                    /\ db'.activations[id] = db.activations[id]
                    /\ id \in Range(ids) =>
                        \E k \in DOMAIN resp'.errors :
                            resp'.errors[k] = <<id, "not found or access denied">>]_vars

\* C24 happens: a request of ann that deactivated an activation of hers was
\* refused bob's activation, which is still active.
C24_Witness ==
    /\ resp.op = "bulk_deactivate"
    /\ \E h \in Handlers :
        /\ pc[h] = "done"
        /\ req[h].user.email = "ann@x.org"
        /\ 4 \in Range(req[h].activation_ids)
    /\ resp.deactivated_count >= 1
    /\ \E k \in DOMAIN resp.errors : resp.errors[k] = <<4, "not found or access denied">>
    /\ db.activations[4].is_active
    /\ db.activations[4].deactivated_at = None

\* --------------------------------------------------------------- check_status

\* A check_status request is answered in this step.
AnswersCheckStatus == resp'.op = "check_status" /\ resp' # resp

\* The licenses of key license_key that section 4.4 reports: status valid or
\* renewed, expiration later than now, of the product asked for if any.
CurrentlyValid(t, license_key, product_slug, at) ==
    {l \in DOMAIN t.licenses :
        /\ t.licenses[l].license_key = license_key
        /\ Entitled(t.licenses[l], at)
        /\ product_slug # NoSlug =>
                t.products[t.licenses[l].product].slug = product_slug}

\* C25: check_status is a pure query: whatever the key, the product slug and
\* the instance identifier, answering it leaves license keys, licenses and
\* activations as they were.
C25_CheckStatusIsPure ==
    [][AnswersCheckStatus =>
            /\ db' = db
            /\ lic' = lic
            /\ activations' = activations]_vars

\* C25 happens: a check_status for a known key, a product and an instance has
\* been answered with a license, and the tables hold what they held.
C25_Witness ==
    /\ resp.op = "check_status"
    /\ resp.code = 200
    /\ resp.product_slug = "pro"
    /\ resp.instance_identifier = 1
    /\ Len(db.activations) = NumActivations
    /\ \E key_active \in BOOLEAN, status \in {"valid", "renewed", "suspended"},
          expiration_date \in 1..MaxTime, first_active \in BOOLEAN, third_active \in BOOLEAN :
            db = ServiceTables(key_active, status, expiration_date,
                               <<first_active, TRUE, third_active, TRUE>>)

\* C26: for a well-formed key, check_status reports exactly the licenses of
\* the key whose status is valid or renewed, whose expiration is later than
\* now and whose product is the one asked for (if any); it answers not-found
\* exactly when the key is unknown or inactive or no license passes.
C26_CheckStatusReportsCurrentlyValid ==
    [][(AnswersCheckStatus /\ validate_license_key(resp'.license_key)) =>
        LET key == resp'.license_key
            known == key \in DOMAIN db.license_keys /\ db.license_keys[key].is_active
            expected == CurrentlyValid(db, key, resp'.product_slug, now)
        IN  IF ~known \/ expected = {}
            THEN resp'.code = 404
            ELSE /\ resp'.code = 200
                 /\ DOMAIN resp'.licenses = expected]_vars

\* C27: when an instance identifier is given, each reported license says the
\* instance is activated if and only if the instance holds an active
\* activation on that license.
C27_InstanceInfoPerLicense ==
    [][(AnswersCheckStatus /\ resp'.code = 200 /\ resp'.instance_identifier # None) =>
        \A l \in DOMAIN resp'.licenses :
            (resp'.licenses[l].instance_info # Some(Null)) <=>
                (\E a \in DOMAIN db.activations :
                    /\ db.activations[a].license = l
                    /\ db.activations[a].instance_identifier = resp'.instance_identifier
                    /\ db.activations[a].is_active)]_vars

\* ------------------------------------------------------------- seat counts

\* The request answered in this step carried a seat count of zero or less.
NonPositiveSeats == resp'.seats # Null /\ resp'.seats[1] <= 0

\* C28: every license has a seat count of at least 1, whichever of
\* provision, create and update wrote it; a request with a non-positive seat
\* count is refused with a client error and creates or changes no license.
C28_SeatsAtLeastOne ==
    [][/\ \A l \in DOMAIN db'.licenses : db'.licenses[l].seats >= 1
       /\ NonPositiveSeats =>
            /\ resp'.code \in {400, 403, 404}
            /\ db'.licenses = db.licenses]_vars

\* ------------------------------------------- the lookups of the service

\* LicenseKey row license_key exists and is active.
KnownActiveKey(t, license_key) ==
    license_key \in DOMAIN t.license_keys /\ t.license_keys[license_key].is_active

\* An activate or check_status request with a well-formed key is answered in
\* this step.
AnswersService ==
    /\ resp' # resp \/ db' # db
    /\ resp'.op \in {"activate", "check_status"}
    /\ validate_license_key(resp'.license_key)

C32_InactiveProduct ==
    [][(/\ AnswersService
        /\ resp'.op = "activate"
        /\ KnownActiveKey(db, resp'.license_key)
        /\ \E p \in DOMAIN db.products :
                /\ db.products[p].slug = resp'.product_slug
                /\ ~db.products[p].is_active) =>
            /\ resp'.code = 404
            /\ db' = db]_vars

\* C33: a license key holds at most one license per product, also after
\* repeated provision calls for the same customer, brand and product, so the
\* license lookup of activate never finds two rows.
C33_OneLicensePerProduct ==
    \A l1 \in DOMAIN db.licenses, l2 \in DOMAIN db.licenses :
        (/\ db.licenses[l1].license_key = db.licenses[l2].license_key
         /\ db.licenses[l1].product = db.licenses[l2].product) => l1 = l2

\* ------------------------------------------------------------- ownership

\* Every activation refers to an existing license, every license to an
\* existing license key and product, every license key and product to an
\* existing brand.
ReferencesExist(t) ==
    /\ \A a \in DOMAIN t.activations : t.activations[a].license \in DOMAIN t.licenses
    /\ \A l \in DOMAIN t.licenses :
            /\ t.licenses[l].license_key \in DOMAIN t.license_keys
            /\ t.licenses[l].product \in DOMAIN t.products
    /\ \A k \in DOMAIN t.license_keys : t.license_keys[k].brand \in DOMAIN t.brands
    /\ \A p \in DOMAIN t.products : t.products[p].brand \in DOMAIN t.brands

\* License l of tables t belongs to brand b through its key or its product.
LicenseOfBrand(t, l, b) ==
    \/ t.license_keys[t.licenses[l].license_key].brand = b
    \/ t.products[t.licenses[l].product].brand = b

\* C34: ownership is hierarchical with cascade delete: after a brand is
\* deleted no product, license key, license or activation that belonged to
\* it remains, and in every state every reference names an existing row.
C34_CascadeDelete ==
    [][/\ ReferencesExist(db) /\ ReferencesExist(db')
       /\ (resp'.op = "brand_destroy" /\ resp'.code = 204 /\ resp'.id \in DOMAIN db.brands) =>
            /\ resp'.id \notin DOMAIN db'.brands
            /\ \A p \in DOMAIN db'.products : db.products[p].brand # resp'.id
            /\ \A k \in DOMAIN db'.license_keys : db.license_keys[k].brand # resp'.id
            /\ \A l \in DOMAIN db'.licenses : ~LicenseOfBrand(db, l, resp'.id)
            /\ \A a \in DOMAIN db'.activations :
                    ~LicenseOfBrand(db, db.activations[a].license, resp'.id)]_vars

\* C34 happens: brand 2 was deleted from the full tables; its product, bob's
\* key, the two licenses of its product and their activations are gone and
\* the rows of brand 1 are left.
C34_Witness ==
    /\ resp.op = "brand_destroy"
    /\ resp.code = 204
    /\ resp.id = 2
    /\ DOMAIN db.brands = {1}
    /\ DOMAIN db.products = {1, 2}
    /\ DOMAIN db.license_keys = {1}
    /\ DOMAIN db.licenses = {1, 2}
    /\ DOMAIN db.activations = {1, 2}

\* ------------------------------------------------- seats, request by request

\* The active activations of license l in tables t.
ActiveOn(t, l) ==
    {a \in DOMAIN t.activations :
        t.activations[a].license = l /\ t.activations[a].is_active}

\* An activate request that found its license is answered in this step.
AnswersActivateOn ==
    /\ resp' # resp \/ db' # db
    /\ resp'.op = "activate"
    /\ resp'.license # None

\* C35: when activate, deactivate and bulk_deactivate requests are served
\* one after the other and seat counts do not change, no license has more
\* active activations than seats, and an activate for an instance with no
\* active activation is refused when the active activations equal the seats.
C35_SequentialSeatCeiling ==
    [][/\ \A l \in DOMAIN db'.licenses :
            Cardinality(ActiveOn(db', l)) <= db'.licenses[l].seats
       /\ (/\ AnswersActivateOn
           /\ Cardinality(ActiveOn(db, resp'.license)) = db.licenses[resp'.license].seats
           /\ \A a \in ActiveOn(db, resp'.license) :
                db.activations[a].instance_identifier # resp'.instance_identifier) =>
            /\ resp'.code = 400
            /\ resp'.error = "No available seats for this license"
            /\ db' = db]_vars

\* C35 happens: with every seat of ann's license taken, an activate for an
\* instance that holds none was refused.
C35_Witness ==
    /\ resp.op = "activate"
    /\ resp.code = 400
    /\ resp.license = 1
    /\ Cardinality(ActiveOn(db, 1)) = db.licenses[1].seats
    /\ \A a \in ActiveOn(db, 1) :
            db.activations[a].instance_identifier # resp.instance_identifier

\* C37: the available_seats of the answer to an activate that created an
\* activation is the license's available_seats after the activation, the new
\* one counted once: within 0..seats, and 0 when the last seat was taken.
C37_ReturnedAvailableSeats ==
    [][(AnswersActivateOn /\ resp'.error = "License activated successfully") =>
        LET l == resp'.license
        IN  /\ resp'.available_seats =
                    available_seats(db'.licenses[l], ActivationsOf(db', l))
            /\ resp'.available_seats \in 0..db'.licenses[l].seats]_vars

\* C36: no operation of the service brings a license to more active
\* activations than seats: not activate, not the create and update endpoints
\* of activations, not the update endpoint of licenses.
C36_NoOperationExceedsSeats ==
    \A l \in DOMAIN db.licenses :
        Cardinality(ActiveOn(db, l)) <= db.licenses[l].seats

\* ------------------------------------------- the lifecycle and the seats

\* C38: renew, suspend, resume and cancel change only fields of the license:
\* every activation and the seat count stay as they were, so the seats of a
\* suspended or cancelled license are not released and available_seats is
\* the same before and after.
C38_LifecycleLeavesSeats ==
    [][(last' # last /\ last'.op \in LifecycleOps) =>
            /\ activations' = activations
            /\ lic'.seats = lic.seats
            /\ available_seats(lic', activations') = available_seats(lic, activations)]_vars

\* C38 happens: the license was cancelled and instance 1 still holds its
\* seat.
C38_Witness ==
    /\ last.op = "cancel"
    /\ last.outcome = "success"
    /\ lic.status = "cancelled"
    /\ ActiveOf(activations, 1) # {}
    /\ available_seats(lic, activations) = MaxSeats - 1

\* ----------------------------------------------- bulk_deactivate (continued)

\* How many times x occurs in the list f.
Occurrences(f, x) == Cardinality({k \in DOMAIN f : f[k] = x})

\* C39: for every non-empty id list, deactivated_count plus the number of
\* errors is the length of the list and deactivated_count is the number of
\* activations that went from active to inactive; an id listed more than once
\* is deactivated once and reported as already deactivated each other time.
C39_BulkDeactivateCounts ==
    [][\A h \in Handlers :
        LET user == req'[h].user
            ids == req'[h].activation_ids
        IN  (ServesBulkDeactivate(h) /\ ids # <<>>) =>
            /\ resp'.deactivated_count + Len(resp'.errors) = Len(ids)
            /\ resp'.deactivated_count =
                    Cardinality({a \in DOMAIN db.activations :
                        db.activations[a].is_active /\ ~db'.activations[a].is_active})
            /\ \A id \in Range(ids) :
                InScopeActive(db, user, id) =>
                    Occurrences(resp'.errors, <<id, "is already deactivated">>)
                        = Occurrences(ids, id) - 1]_vars

\* C39 happens: ann listed her first activation, which was active, twice and
\* her second once; the result counts 2 and reports the first as already
\* deactivated, and the first bears the time of the request.
C39_Witness ==
    /\ resp.op = "bulk_deactivate"
    /\ \E h \in Handlers :
        /\ pc[h] = "done"
        /\ req[h].user.email = "ann@x.org"
        /\ req[h].activation_ids = <<1, 1, 2>>
    /\ resp.deactivated_count = 2
    /\ resp.errors = << <<1, "is already deactivated">> >>
    /\ db.activations[1].deactivated_at = 1
    /\ db.activations[2].deactivated_at = 1

\* C40: deactivate and bulk_deactivate apply the same access scope: for every
\* caller and every active activation id, bulk_deactivate([id]) deactivates
\* the activation if and only if deactivate(id) by the caller would succeed.
C40_SameScope ==
    [][\A h \in Handlers :
        LET user == req'[h].user
            ids == req'[h].activation_ids
        IN  (/\ ServesBulkDeactivate(h)
             /\ Len(ids) = 1
             /\ ids[1] \in DOMAIN db.activations
             /\ db.activations[ids[1]].is_active) =>
            (resp'.deactivated_count = 1 <=>
                ActivationViewSet_deactivate(db, user, ids[1], req'[h].reason, now).code = 200)]_vars

====
